---------------------------- MODULE Spec2Model ----------------------------
(***************************************************************************)
(* A model of the Sandstorm spk tool (src/src/sandstorm/spk.c++): the      *)
(* base32 identifier codec, and the pack and unpack pipelines with their   *)
(* xz subprocess and the directory trees they read and write.              *)
(*                                                                         *)
(* Strings are sequences of character codes (0..255); byte arrays are      *)
(* sequences of 0..255.  The C++ `uint` is 32 bits wide; it is kept as a   *)
(* pair of 16-bit halves so that shifts lose their high bits exactly as    *)
(* the machine word does.                                                  *)
(***************************************************************************)
EXTENDS Integers, Sequences, FiniteSets, TLC

VARIABLES
  cd,        \* the codec run: its input and results
  srcTree,   \* the directory pack reads
  pack,      \* doPack: its position, locals and outcome
  spk,       \* the package file: its first bytes and its compressed region
  tampered,  \* whether the compressed region was altered after pack
  child,     \* the xz subprocess
  pipe,      \* the chunks in the pipe between the tool and xz
  pipeOpen,  \* whether the tool holds its end of the pipe (pipeFd)
  unpack,    \* doUnpack: its position, locals and outcome
  ustack,    \* the unpackDir calls in progress, innermost last
  disk,      \* what exists at and under the destination, in creation order
  rootBy     \* who created the destination directory

(***************************************************************************)
(* Bounds of the checked inputs.                                           *)
(***************************************************************************)
MaxBytes == 5
MaxChars == 3

(***************************************************************************)
(* 32-bit unsigned arithmetic.                                             *)
(***************************************************************************)
Pow2(n) == 2 ^ n

U32(v) == [hi |-> 0, lo |-> v]

\* x << n, for 0 <= n <= 8, truncated to 32 bits
Shl32(x, n) ==
  LET lo2 == x.lo * Pow2(n)
      hi2 == x.hi * Pow2(n) + (lo2 \div 65536)
  IN  [hi |-> hi2 % 65536, lo |-> lo2 % 65536]

\* x >> n, for 0 <= n <= 15
Shr32(x, n) ==
  [hi |-> x.hi \div Pow2(n),
   lo |-> (x.lo \div Pow2(n)) + (x.hi % Pow2(n)) * Pow2(16 - n)]

RECURSIVE BitOr(_, _)
BitOr(a, b) ==
  IF a = 0 THEN b
  ELSE IF b = 0 THEN a
  ELSE (IF (a % 2 = 1) \/ (b % 2 = 1) THEN 1 ELSE 0)
       + 2 * BitOr(a \div 2, b \div 2)

\* x | v, for v < 65536
Or32(x, v) == [hi |-> x.hi, lo |-> BitOr(x.lo, v)]

\* x & (2^k - 1), for k <= 16, as a number
LowBits32(x, k) == x.lo % Pow2(k)

(***************************************************************************)
(* base32Encode                                                            *)
(***************************************************************************)
\* "0123456789acdefghjkmnpqrstuvwxyz"
BASE32_ENCODE_TABLE ==
  << 48, 49, 50, 51, 52, 53, 54, 55, 56, 57,
     97, 99, 100, 101, 102, 103, 104, 106, 107, 109,
     110, 112, 113, 114, 115, 116, 117, 118, 119, 120, 121, 122 >>

\* a character of a heapString() that was never written
Uninit == -1

\* the size of the result: a character for every 5 bits, rounded up
EncodedSize(n) == (n * 8 + 4) \div 5

\* the zero bits appended to the last partial group
EncodePad(bitsLeft) == 5 - bitsLeft

\* a faulty mask: only 4 bits are kept
EncodeIndex4(buffer, bitsLeft) == LowBits32(Shr32(buffer, bitsLeft - 5), 4)

\* the 5 bits emitted for one character
EncodeIndex(buffer, bitsLeft) == LowBits32(Shr32(buffer, bitsLeft - 5), 5)

RECURSIVE EncodeLoop(_, _, _, _, _, _)
EncodeLoop(data, buffer, next, bitsLeft, count, result) ==
  IF bitsLeft > 0 \/ next < Len(data)
  THEN LET refill  == bitsLeft < 5
           more    == next < Len(data)
           buffer1 == IF ~refill THEN buffer
                      ELSE IF more
                           THEN Or32(Shl32(buffer, 8), data[next + 1] % 256)
                           ELSE Shl32(buffer, EncodePad(bitsLeft))
           next1   == IF refill /\ more THEN next + 1 ELSE next
           bits1   == IF ~refill THEN bitsLeft
                      ELSE IF more THEN bitsLeft + 8
                           ELSE bitsLeft + EncodePad(bitsLeft)
           index   == EncodeIndex(buffer1, bits1)
       IN  IF ~(count < Len(result))
           THEN [ok |-> FALSE, err |-> "AssertFailed", val |-> result]
           ELSE EncodeLoop(data, buffer1, next1, bits1 - 5, count + 1,
                           [result EXCEPT ![count + 1] =
                              BASE32_ENCODE_TABLE[index + 1]])
  ELSE [ok |-> TRUE, err |-> "", val |-> result]

base32Encode(data) ==
  LET result == [i \in 1..EncodedSize(Len(data)) |-> Uninit]
  IN  IF Len(data) > 0
      THEN EncodeLoop(data, U32(data[1]), 1, 8, 0, result)
      ELSE [ok |-> TRUE, err |-> "", val |-> result]

(***************************************************************************)
(* Base32Decoder                                                           *)
(***************************************************************************)
IsLower(c) == 97 <= c /\ c <= 122

\* the table the constructor builds: 255 everywhere, then the alphabet and
\* its upper-case forms, then the four folded letters
decodeTable ==
  [c \in 0..255 |->
     IF c \in {111, 79} THEN 0
     ELSE IF c \in {105, 73, 108, 76} THEN 1
     ELSE IF c \in {98, 66} THEN 8
     ELSE IF \E i \in 1..32 : BASE32_ENCODE_TABLE[i] = c
          THEN (CHOOSE i \in 1..32 : BASE32_ENCODE_TABLE[i] = c) - 1
     ELSE IF \E i \in 1..32 : IsLower(BASE32_ENCODE_TABLE[i])
                              /\ BASE32_ENCODE_TABLE[i] - 97 + 65 = c
          THEN (CHOOSE i \in 1..32 : IsLower(BASE32_ENCODE_TABLE[i])
                              /\ BASE32_ENCODE_TABLE[i] - 97 + 65 = c) - 1
     ELSE 255]

\* KJ_ASSERT(decoded <= 32, "Invalid base32.")
DecodedValid(decoded) == decoded <= 32

\* the size of the result: rounded down
DecodedSize(n) == (n * 5) \div 8

\* a faulty mask: the leftover bits are dropped
DecodeLeftoverDropped(buffer, bitsLeft) == 0

\* buffer &= (1 << bitsLeft) - 1
DecodeLeftover(buffer, bitsLeft) == LowBits32(buffer, bitsLeft)

RECURSIVE DecodeLoop(_, _, _, _, _, _)
DecodeLoop(encoded, i, buffer, bitsLeft, count, result) ==
  IF i > Len(encoded)
  THEN IF DecodeLeftover(buffer, bitsLeft) = 0
       THEN [ok |-> TRUE, err |-> "", val |-> result]
       ELSE [ok |-> FALSE, err |-> "TrailingBits", val |-> <<>>]
  ELSE LET decoded == decodeTable[encoded[i] % 256]
           buffer1 == Or32(Shl32(buffer, 5), decoded)
           bits1   == bitsLeft + 5
       IN  IF ~DecodedValid(decoded)
           THEN [ok |-> FALSE, err |-> "InvalidEncoding", val |-> <<>>]
           ELSE IF bits1 >= 8
           THEN IF ~(count < Len(encoded))
                THEN [ok |-> FALSE, err |-> "AssertFailed", val |-> <<>>]
                ELSE DecodeLoop(encoded, i + 1, buffer1, bits1 - 8, count + 1,
                       [result EXCEPT ![count + 1] =
                          LowBits32(Shr32(buffer1, bits1 - 8), 8)])
           ELSE DecodeLoop(encoded, i + 1, buffer1, bits1, count, result)

Base32Decode(encoded) ==
  DecodeLoop(encoded, 1, U32(0), 0, 0,
             [i \in 1..DecodedSize(Len(encoded)) |-> Uninit])

(***************************************************************************)
(* The codec, run on bounded inputs.                                       *)
(***************************************************************************)
ByteValues == {0, 165, 255}
\* '!'  '0'  '8'  'B'  'O'  'u'  'w'  'z'  and the byte 255
CharValues == {33, 48, 56, 66, 79, 117, 119, 122, 255}

RECURSIVE SeqsUpTo(_, _)
SeqsUpTo(S, n) ==
  IF n = 0 THEN {<<>>}
  ELSE LET shorter == SeqsUpTo(S, n - 1)
       IN  shorter \cup {Append(s, x) : s \in shorter, x \in S}

NotRun == [ok |-> FALSE, err |-> "NotRun", val |-> <<>>]

CodecIdle == [phase |-> "idle", mode |-> "none", input |-> <<>>,
              text |-> <<>>, enc |-> NotRun, dec |-> NotRun]

CodecInit ==
  \/ \E x \in SeqsUpTo(ByteValues, MaxBytes) :
        cd = [CodecIdle EXCEPT !.phase = "init", !.mode = "bytes", !.input = x]
  \/ \E t \in SeqsUpTo(CharValues, MaxChars) :
        cd = [CodecIdle EXCEPT !.phase = "init", !.mode = "text", !.text = t]

pipelineVars == <<srcTree, pack, spk, tampered, child, pipe, pipeOpen, unpack,
                  ustack, disk, rootBy>>

Encode ==
  /\ cd.phase = "init" /\ cd.mode = "bytes"
  /\ cd' = [cd EXCEPT !.phase = "encoded", !.enc = base32Encode(cd.input)]
  /\ UNCHANGED pipelineVars

DecodeEncoded ==
  /\ cd.phase = "encoded" /\ cd.enc.ok
  /\ cd' = [cd EXCEPT !.phase = "decoded", !.dec = Base32Decode(cd.enc.val)]
  /\ UNCHANGED pipelineVars

DecodeText ==
  /\ cd.phase = "init" /\ cd.mode = "text"
  /\ cd' = [cd EXCEPT !.phase = "decoded", !.dec = Base32Decode(cd.text)]
  /\ UNCHANGED pipelineVars


(***************************************************************************)
(* Strings used by the pipelines.                                          *)
(***************************************************************************)
Slash == 47
Nul == 0
Dot == <<46>>
DotDot == <<46, 46>>

\* kj::str(dirname, '/', filename)
PathJoin(dirname, filename) == dirname \o <<Slash>> \o filename

RECURSIVE CStr(_)
\* what a system call sees of a string: the bytes before the first NUL
CStr(s) ==
  IF s = <<>> \/ Head(s) = Nul THEN <<>> ELSE <<Head(s)>> \o CStr(Tail(s))

\* findFirst(c) == nullptr
NoChar(s, c) == \A i \in 1..Len(s) : s[i] # c

(***************************************************************************)
(* The directory tree pack reads: each directory is the sequence of its    *)
(* entries in the order readdir() returns them.                            *)
(***************************************************************************)
S_IXUSR == 64

\* stats.st_mode & S_IXUSR
OwnerExec(mode) == (mode \div S_IXUSR) % 2 = 1

\* the names readdir() returns for a directory
ReadDir(entries) == <<Dot, DotDot>> \o [i \in 1..Len(entries) |-> entries[i].name]

\* packDirectory's first loop: every name but "." and ".."
ListedNames(entries) ==
  SelectSeq(ReadDir(entries), LAMBDA n : n # Dot /\ n # DotDot)

\* lstat(path) of a name readdir() returned
EntryNamed(entries, name) ==
  entries[CHOOSE i \in 1..Len(entries) : entries[i].name = name]

\* the union member a new Archive.File holds before any is set
DefaultWhich == "regular"

RECURSIVE packDirectory(_, _)
RECURSIVE packFile(_, _)
packFile(dirname, e) ==
  IF e.type = "S_IFREG"
  THEN [name |-> e.name,
        which |-> IF OwnerExec(e.mode) THEN "executable" ELSE "regular",
        data |-> e.data, files |-> <<>>]
  ELSE IF e.type = "S_IFLNK"
  THEN [name |-> e.name, which |-> "symlink", data |-> e.data, files |-> <<>>]
  ELSE IF e.type = "S_IFDIR"
  THEN [name |-> e.name, which |-> "directory", data |-> <<>>,
        files |-> packDirectory(PathJoin(dirname, e.name), e.children)]
  ELSE [name |-> e.name, which |-> DefaultWhich, data |-> <<>>, files |-> <<>>]

packDirectory(dirname, entries) ==
  LET names == ListedNames(entries)
  IN  [i \in 1..Len(names) |-> packFile(dirname, EntryNamed(entries, names[i]))]

RECURSIVE FlattenSeq(_)
FlattenSeq(ss) == IF ss = <<>> THEN <<>> ELSE Head(ss) \o FlattenSeq(Tail(ss))

RECURSIVE packWarnings(_, _)
\* the paths context.warning() is called with, in order
packWarnings(dirname, entries) ==
  FlattenSeq([i \in 1..Len(entries) |->
     LET e == entries[i]
         path == PathJoin(dirname, e.name)
     IN  IF e.type = "S_IFDIR" THEN packWarnings(path, e.children)
         ELSE IF e.type \in {"S_IFREG", "S_IFLNK"} THEN <<>>
         ELSE <<path>>])

(***************************************************************************)
(* Keys, hashes and signatures (libsodium), idealised: a hash identifies   *)
(* its input, and a signature opens only under the key that made it.       *)
(***************************************************************************)
crypto_sign_PUBLICKEYBYTES == 32
crypto_hash_BYTES == 64
crypto_sign_BYTES == 64

\* the two key pairs: the packer's and another party's
PackerKey == 1
OtherKey == 2

PublicKeyOf(k) == [i \in 1..crypto_sign_PUBLICKEYBYTES |-> (k * 85 + i * 7) % 256]

crypto_hash(bytes) == [digest |-> bytes, len |-> crypto_hash_BYTES]

crypto_sign(msg, k) == [signer |-> k, msg |-> msg, len |-> msg.len + crypto_sign_BYTES]

\* a faulty verification: any blob with a signer opens under any key
crypto_sign_open_any(sig, publicKey) == sig.signer # 0

crypto_sign_open(sig, publicKey) == sig.signer # 0 /\ PublicKeyOf(sig.signer) = publicKey

(***************************************************************************)
(* The package file.                                                       *)
(***************************************************************************)
\* spk::MAGIC_NUMBER is set in package.capnp, which is not among the sources:
\* eight bytes stand for it, and nothing below depends on their values
MAGIC_NUMBER == <<143, 198, 205, 239, 69, 26, 234, 150>>

NoRegion == [body |-> <<>>, complete |-> FALSE, enc |-> 0]

\* the Signature message followed by the serialized archive
PackStream(signature, tmpData) == <<signature>> \o tmpData


(***************************************************************************)
(* The xz subprocess (ChildProcess).                                       *)
(***************************************************************************)
PipeCap == 1

ExitOk == [kind |-> "exit", code |-> 0]
ExitFail == [kind |-> "exit", code |-> 1]
Killed == [kind |-> "signal", code |-> 9]
SigPipe == [kind |-> "signal", code |-> 13]

NoChild == [state |-> "none", dir |-> "none", status |-> ExitOk, pos |-> 0]

\* ChildProcess(): pipe(), fork(), execlp()
ChildSpawned(direction) ==
  [state |-> "running", dir |-> direction, status |-> ExitOk, pos |-> 0]

\* xz -zc: read a chunk from the pipe, append it compressed to the file
ChildCompress ==
  /\ child.state = "running" /\ child.dir = "OUTPUT"
  /\ pipe # <<>>
  /\ pipe' = Tail(pipe)
  /\ spk' = [spk EXCEPT !.region.body = Append(@, Head(pipe))]
  /\ UNCHANGED <<cd, srcTree, pack, tampered, child, pipeOpen, unpack, ustack,
                 disk, rootBy>>

\* xz -zc at end of input: finish the stream and exit 0
ChildCompressEnd ==
  /\ child.state = "running" /\ child.dir = "OUTPUT"
  /\ pipe = <<>> /\ ~pipeOpen
  /\ spk' = [spk EXCEPT !.region.complete = TRUE]
  /\ child' = [child EXCEPT !.state = "exited", !.status = ExitOk]
  /\ UNCHANGED <<cd, srcTree, pack, tampered, pipe, pipeOpen, unpack, ustack,
                 disk, rootBy>>

\* xz -dc: write the next decompressed chunk to the pipe; with the read end
\* closed the write raises SIGPIPE
ChildDecompress ==
  /\ child.state = "running" /\ child.dir = "INPUT"
  /\ child.pos < Len(spk.region.body)
  /\ IF pipeOpen
     THEN /\ Len(pipe) < PipeCap
          /\ pipe' = Append(pipe, spk.region.body[child.pos + 1])
          /\ child' = [child EXCEPT !.pos = @ + 1]
     ELSE /\ pipe' = pipe
          /\ child' = [child EXCEPT !.state = "exited", !.status = SigPipe]
  /\ UNCHANGED <<cd, srcTree, pack, spk, tampered, pipeOpen, unpack, ustack,
                 disk, rootBy>>

\* xz -dc at the end of the file: exit 0 if the stream was whole and intact
ChildDecompressEnd ==
  /\ child.state = "running" /\ child.dir = "INPUT"
  /\ child.pos = Len(spk.region.body)
  /\ child' = [child EXCEPT !.state = "exited",
                 !.status = IF spk.region.complete THEN ExitOk ELSE ExitFail]
  /\ UNCHANGED <<cd, srcTree, pack, spk, tampered, pipe, pipeOpen, unpack,
                 ustack, disk, rootBy>>

\* the subprocess fails on its own: execlp() fails, xz runs out of memory or
\* disk, or it is killed
ChildCrash ==
  /\ child.state = "running"
  /\ \E st \in {ExitFail, Killed} :
        child' = [child EXCEPT !.state = "exited", !.status = st]
  /\ UNCHANGED <<cd, srcTree, pack, spk, tampered, pipe, pipeOpen, unpack,
                 ustack, disk, rootBy>>

\* a faulty destructor: only a non-zero exit code counts, not a signal
ChildStatusExitOnly(status) ==
  IF status.kind = "exit" /\ status.code # 0 THEN "ChildFailed" ELSE "ok"

\* ~ChildProcess(): what waitpid()'s status leads to
ChildStatusOutcome(status) ==
  IF status = ExitOk THEN "ok" ELSE "ChildFailed"

(***************************************************************************)
(* doPack                                                                  *)
(***************************************************************************)
\* the directory named on the command line, "s", and the package, "s.spk"
SrcDirname == <<115>>
SpkName == <<115, 46, 115, 112, 107>>

PackIdle ==
  [pc |-> "idle", outcome |-> "", archive |-> <<>>, tmpData |-> <<>>,
   hash |-> crypto_hash(<<>>), signResult |-> 0, signature |-> <<>>,
   toSend |-> <<>>, warnings |-> <<>>, stdout |-> <<>>]

\* base32Encode() of the public keys in play, computed once
AppIdOf ==
  [pk \in {PublicKeyOf(PackerKey), PublicKeyOf(OtherKey)}
     |-> base32Encode(pk).val]

\* printAppId: the line written to stdout
AppIdLine(publicKey, filename) ==
  (IF publicKey \in DOMAIN AppIdOf THEN AppIdOf[publicKey]
   ELSE base32Encode(publicKey).val) \o <<32>> \o filename

\* pack the directory into an Archive and write it to the temporary file
PackArchive ==
  /\ pack.pc = "archive"
  /\ pack' = [pack EXCEPT !.pc = "hash",
                !.archive = packDirectory(SrcDirname, srcTree),
                !.warnings = packWarnings(SrcDirname, srcTree),
                !.tmpData = <<[files |-> packDirectory(SrcDirname, srcTree)]>>]
  /\ UNCHANGED <<cd, srcTree, spk, tampered, child, pipe, pipeOpen, unpack,
                 ustack, disk, rootBy>>

\* what crypto_sign() returns: 0, or -1 on an error of the algorithm
SignResults == {0, -1}

\* the blob crypto_sign() leaves in the buffer of siglen bytes: the signed
\* hash, or on an error bytes that open under no key
SignedBlob(result, hash, k) ==
  IF result = 0 THEN crypto_sign(hash, k)
  ELSE [crypto_sign(hash, k) EXCEPT !.signer = 0]

\* hash the temporary file and sign the hash; the value crypto_sign()
\* returns is not looked at
PackSign ==
  /\ pack.pc = "hash"
  /\ \E result \in SignResults :
       pack' = [pack EXCEPT !.pc = "open",
                  !.hash = crypto_hash(pack.tmpData),
                  !.signResult = result,
                  !.signature =
                     [publicKey |-> PublicKeyOf(PackerKey),
                      signature |-> SignedBlob(result,
                                      crypto_hash(pack.tmpData), PackerKey)]]
  /\ UNCHANGED <<cd, srcTree, spk, tampered, child, pipe, pipeOpen, unpack,
                 ustack, disk, rootBy>>

\* open the final file (O_TRUNC) and write the magic number uncompressed
PackOpenFinal ==
  /\ pack.pc = "open"
  /\ pack' = [pack EXCEPT !.pc = "spawn"]
  /\ spk' = [exists |-> TRUE, header |-> MAGIC_NUMBER, region |-> NoRegion]
  /\ UNCHANGED <<cd, srcTree, tampered, child, pipe, pipeOpen, unpack, ustack,
                 disk, rootBy>>

\* ChildProcess child("xz", "-zc", finalFile, OUTPUT)
PackSpawn ==
  /\ pack.pc = "spawn"
  /\ pack' = [pack EXCEPT !.pc = "write",
                !.toSend = PackStream(pack.signature, pack.tmpData)]
  /\ child' = ChildSpawned("OUTPUT")
  /\ pipe' = <<>>
  /\ pipeOpen' = TRUE
  /\ UNCHANGED <<cd, srcTree, spk, tampered, unpack, ustack, disk, rootBy>>

\* write the signature and the archive to the pipe, blocking while it is
\* full; a write after the reader is gone raises SIGPIPE
PackWrite ==
  /\ pack.pc = "write"
  /\ IF pack.toSend = <<>>
     THEN /\ pack' = [pack EXCEPT !.pc = "close"]
          /\ pipe' = pipe
     ELSE IF child.state # "running"
     THEN /\ pack' = [pack EXCEPT !.pc = "done", !.outcome = "KilledBySigpipe"]
          /\ pipe' = pipe
     ELSE /\ Len(pipe) < PipeCap
          /\ pipe' = Append(pipe, Head(pack.toSend))
          /\ pack' = [pack EXCEPT !.toSend = Tail(@)]
  /\ UNCHANGED <<cd, srcTree, spk, tampered, child, pipeOpen, unpack, ustack,
                 disk, rootBy>>

\* ~ChildProcess(): close the pipe first
PackClosePipe ==
  /\ pack.pc = "close"
  /\ pipeOpen' = FALSE
  /\ pack' = [pack EXCEPT !.pc = "wait"]
  /\ UNCHANGED <<cd, srcTree, spk, tampered, child, pipe, unpack, ustack,
                 disk, rootBy>>

\* ~ChildProcess(): waitpid(), and fail unless the status is 0
PackWait ==
  /\ pack.pc = "wait"
  /\ child.state = "exited"
  /\ child' = [child EXCEPT !.state = "reaped"]
  /\ pack' = IF ChildStatusOutcome(child.status) = "ok"
             THEN [pack EXCEPT !.pc = "print"]
             ELSE [pack EXCEPT !.pc = "done",
                               !.outcome = ChildStatusOutcome(child.status)]
  /\ UNCHANGED <<cd, srcTree, spk, tampered, pipe, pipeOpen, unpack, ustack,
                 disk, rootBy>>

\* printAppId(keyReader.getPublicKey(), spkfile)
PackPrint ==
  /\ pack.pc = "print"
  /\ pack' = [pack EXCEPT !.pc = "done", !.outcome = "Success",
                !.stdout = AppIdLine(pack.signature.publicKey, SpkName)]
  /\ UNCHANGED <<cd, srcTree, spk, tampered, child, pipe, pipeOpen, unpack,
                 ustack, disk, rootBy>>


(***************************************************************************)
(* doUnpack                                                                *)
(***************************************************************************)
\* the output directory, "d"
DestDirname == <<100>>

UnpackIdle ==
  [pc |-> "idle", outcome |-> "", spawned |-> FALSE, publicKey |-> <<>>,
   sigBytes |-> crypto_sign(crypto_hash(<<>>), 0),
   expectedHash |-> crypto_hash(<<>>), tmp |-> <<>>, stdout |-> <<>>,
   via |-> "", report |-> <<>>]

\* kj::str("*** ", filename, ": ", problem)
Report(filename, problem) == <<"*** ", filename, ": ", problem>>

\* a faulty report: the file name is left out
ValidationErrorNoFilename(u, problem) ==
  [u EXCEPT !.pc = "done", !.outcome = problem, !.via = "exitError",
            !.report = <<"*** ", problem>>]

\* validationError(): context.exitError() prints the report and ends the
\* process at once
ValidationError(u, problem) ==
  [u EXCEPT !.pc = "done", !.outcome = problem, !.via = "exitError",
            !.report = Report(SpkName, problem)]

\* return "<message>": the message goes back to the caller of doUnpack
ReturnError(u, problem) ==
  [u EXCEPT !.pc = "done", !.outcome = problem, !.via = "returned",
            !.report = <<problem>>]

\* an exception thrown while the ChildProcess is alive: unwinding runs its
\* destructor before the process ends
ThrowInChildScope(u, problem) ==
  [u EXCEPT !.pc = "close", !.outcome = problem, !.via = "exception"]

\* an exception thrown with no ChildProcess alive
Throw(u, problem) ==
  [u EXCEPT !.pc = "done", !.outcome = problem, !.via = "exception"]

\* access(dirname, F_OK) == 0
UnpackStart ==
  /\ unpack.pc = "idle" /\ spk.exists
  /\ pack.pc = "done" /\ pack.outcome \in {"Success", "NotRun"}
  /\ unpack' = IF rootBy # "none"
               THEN ReturnError(unpack, "OutputExists")
               ELSE [unpack EXCEPT !.pc = "magic"]
  /\ UNCHANGED <<cd, srcTree, pack, spk, tampered, child, pipe, pipeOpen,
                 ustack, disk, rootBy>>

\* a faulty loop: only the first byte is compared
MagicFirstByte(magic) == magic[1] = MAGIC_NUMBER[1]

\* the loop comparing magic[i] with expectedMagic[i]
MagicMatches(magic) ==
  \A i \in 1..Len(MAGIC_NUMBER) : magic[i] = MAGIC_NUMBER[i]

\* read exactly the magic number's length, then compare
UnpackReadMagic ==
  /\ unpack.pc = "magic"
  /\ unpack' = IF Len(spk.header) < Len(MAGIC_NUMBER)
               THEN Throw(unpack, "PrematureEOF")
               ELSE IF ~MagicMatches(spk.header)
               THEN ValidationError(unpack, "BadMagic")
               ELSE [unpack EXCEPT !.pc = "spawn"]
  /\ UNCHANGED <<cd, srcTree, pack, spk, tampered, child, pipe, pipeOpen,
                 ustack, disk, rootBy>>

\* kj::heap<ChildProcess>("xz", "-dc", spkfd, INPUT)
UnpackSpawn ==
  /\ unpack.pc = "spawn"
  /\ unpack' = [unpack EXCEPT !.pc = "readSig", !.spawned = TRUE]
  /\ child' = ChildSpawned("INPUT")
  /\ pipe' = <<>>
  /\ pipeOpen' = TRUE
  /\ UNCHANGED <<cd, srcTree, pack, spk, tampered, ustack, disk, rootBy>>

IsSignature(chunk) == "publicKey" \in DOMAIN chunk

\* pkReader.size() == sizeof(publicKey) && sigReader.size() == sizeof(sigBytes)
SignatureWellFormed(chunk) ==
  /\ IsSignature(chunk)
  /\ Len(chunk.publicKey) = crypto_sign_PUBLICKEYBYTES
  /\ chunk.signature.len = crypto_hash_BYTES + crypto_sign_BYTES

\* read the Signature message from the pipe (blocking), check its sizes;
\* bytes that are no Signature message make the message reader throw, or
\* read as a message with empty fields
UnpackReadSig ==
  /\ unpack.pc = "readSig"
  /\ pipe # <<>> \/ child.state # "running"
  /\ IF pipe = <<>>
     THEN /\ unpack' = ThrowInChildScope(unpack, "ReadFailed")
          /\ UNCHANGED <<pipe, pipeOpen>>
     ELSE IF ~IsSignature(Head(pipe))
     THEN \/ /\ unpack' = ThrowInChildScope(unpack, "ReadFailed")
             /\ pipe' = Tail(pipe)
             /\ pipeOpen' = pipeOpen
          \/ /\ unpack' = ValidationError(unpack, "MalformedSignature")
             /\ pipe' = Tail(pipe)
             /\ pipeOpen' = FALSE
     ELSE IF ~SignatureWellFormed(Head(pipe))
     THEN /\ unpack' = ValidationError(unpack, "MalformedSignature")
          /\ pipe' = Tail(pipe)
          /\ pipeOpen' = FALSE
     ELSE /\ unpack' = [unpack EXCEPT !.pc = "verify",
                          !.publicKey = Head(pipe).publicKey,
                          !.sigBytes = Head(pipe).signature]
          /\ pipe' = Tail(pipe)
          /\ pipeOpen' = pipeOpen
  /\ UNCHANGED <<cd, srcTree, pack, spk, tampered, child, ustack, disk, rootBy>>

\* crypto_sign_open(), then the length of the recovered hash
UnpackVerify ==
  /\ unpack.pc = "verify"
  /\ IF ~crypto_sign_open(unpack.sigBytes, unpack.publicKey)
     THEN /\ unpack' = ValidationError(unpack, "InvalidSignature")
          /\ pipeOpen' = FALSE
     ELSE IF unpack.sigBytes.msg.len # crypto_hash_BYTES
     THEN /\ unpack' = ValidationError(unpack, "MalformedSignature")
          /\ pipeOpen' = FALSE
     ELSE /\ unpack' = [unpack EXCEPT !.pc = "drain",
                          !.expectedHash = unpack.sigBytes.msg]
          /\ pipeOpen' = pipeOpen
  /\ UNCHANGED <<cd, srcTree, pack, spk, tampered, child, pipe, ustack, disk,
                 rootBy>>

\* copy the rest of the stream to the temporary file, until tryRead() == 0
UnpackDrain ==
  /\ unpack.pc = "drain"
  /\ pipe # <<>> \/ child.state # "running"
  /\ IF pipe # <<>>
     THEN /\ unpack' = [unpack EXCEPT !.tmp = Append(@, Head(pipe))]
          /\ pipe' = Tail(pipe)
     ELSE /\ unpack' = [unpack EXCEPT !.pc = "close"]
          /\ pipe' = pipe
  /\ UNCHANGED <<cd, srcTree, pack, spk, tampered, child, pipeOpen, ustack,
                 disk, rootBy>>

\* a faulty destructor: waitpid() with the pipe still open
UnpackWaitsWithPipeOpen ==
  /\ unpack.pc = "close"
  /\ unpack' = [unpack EXCEPT !.pc = "wait"]
  /\ UNCHANGED <<cd, srcTree, pack, spk, tampered, child, pipe, pipeOpen,
                 ustack, disk, rootBy>>

\* ~ChildProcess(): close the pipe first
UnpackClosePipe ==
  /\ unpack.pc = "close"
  /\ pipeOpen' = FALSE
  /\ unpack' = [unpack EXCEPT !.pc = "wait"]
  /\ UNCHANGED <<cd, srcTree, pack, spk, tampered, child, pipe, ustack, disk,
                 rootBy>>

\* ~ChildProcess(): waitpid(); a bad status throws, unless an exception is
\* already unwinding, which then stands
UnpackWait ==
  /\ unpack.pc = "wait"
  /\ child.state = "exited"
  /\ child' = [child EXCEPT !.state = "reaped"]
  /\ unpack' = IF unpack.outcome # ""
               THEN [unpack EXCEPT !.pc = "done"]
               ELSE IF ChildStatusOutcome(child.status) = "ok"
               THEN [unpack EXCEPT !.pc = "hash"]
               ELSE Throw(unpack, ChildStatusOutcome(child.status))
  /\ UNCHANGED <<cd, srcTree, pack, spk, tampered, pipe, pipeOpen, ustack,
                 disk, rootBy>>

\* a faulty comparison: the hashes are never told apart
HashesMatchAlways(expectedHash, hash) == TRUE

\* memcmp(expectedHash, hash, crypto_hash_BYTES) == 0
HashesMatch(expectedHash, hash) == expectedHash.digest = hash.digest

\* hash the temporary file and compare with the signed hash
UnpackHash ==
  /\ unpack.pc = "hash"
  /\ unpack' = IF ~HashesMatch(unpack.expectedHash, crypto_hash(unpack.tmp))
               THEN ValidationError(unpack, "ContentMismatch")
               ELSE [unpack EXCEPT !.pc = "mkdir"]
  /\ UNCHANGED <<cd, srcTree, pack, spk, tampered, child, pipe, pipeOpen,
                 ustack, disk, rootBy>>

\* archiveMessage.getRoot<spk::Archive>().getFiles(); an empty file reads
\* as an empty message
ArchiveFiles(tmp) ==
  IF tmp = <<>> \/ "files" \notin DOMAIN tmp[1] THEN <<>> ELSE tmp[1].files

Frame(files, dirname) == [files |-> files, i |-> 1, dir |-> dirname, seen |-> {}]

\* a faulty mkdir: an existing directory is accepted
MkdirNeverFails(owner) == FALSE

\* mkdir() fails with EEXIST when anything is at the path
MkdirFails(owner) == owner # "none"

\* mkdir(dirname, 0777), then the outermost unpackDir
UnpackMkdir ==
  /\ unpack.pc = "mkdir"
  /\ IF MkdirFails(rootBy)
     THEN /\ unpack' = Throw(unpack, "MkdirFailed")
          /\ UNCHANGED <<rootBy, ustack>>
     ELSE /\ unpack' = [unpack EXCEPT !.pc = "unpackDir"]
          /\ rootBy' = IF rootBy = "none" THEN "unpack" ELSE rootBy
          /\ ustack' = <<Frame(ArchiveFiles(unpack.tmp), DestDirname)>>
  /\ UNCHANGED <<cd, srcTree, pack, spk, tampered, child, pipe, pipeOpen, disk>>

\* a faulty check: a slash in the name goes unnoticed
NameValidNoSlash(name) ==
  /\ Len(name) # 0 /\ name # Dot /\ name # DotDot
  /\ NoChar(name, Nul)

\* the KJ_REQUIRE on a file's name
NameValid(name) ==
  /\ Len(name) # 0 /\ name # Dot /\ name # DotDot
  /\ NoChar(name, Slash) /\ NoChar(name, Nul)

\* a faulty set: every insertion reports a new name
NotSeenAlways(seen, name) == TRUE

\* seen.insert(name).second
NotSeen(seen, name) == name \notin seen

\* access(path, F_OK) == 0
PathExists(d, path) ==
  \/ CStr(path) = DestDirname
  \/ \E k \in 1..Len(d) : d[k].path = CStr(path)

Node(path, type, mode, data) ==
  [path |-> CStr(path), type |-> type, mode |-> mode, data |-> data]

\* a faulty switch: the executable case opens with mode 0666 too
CreatedAllRegular(file, path) ==
  IF file.which \in {"regular", "executable"}
  THEN Node(path, "S_IFREG", 438, file.data)
  ELSE IF file.which = "symlink" THEN Node(path, "S_IFLNK", 511, CStr(file.data))
  ELSE Node(path, "S_IFDIR", 511, <<>>)

\* what the switch on file.which() creates at path
Created(file, path) ==
  IF file.which = "regular" THEN Node(path, "S_IFREG", 438, file.data)
  ELSE IF file.which = "executable" THEN Node(path, "S_IFREG", 511, file.data)
  ELSE IF file.which = "symlink" THEN Node(path, "S_IFLNK", 511, CStr(file.data))
  ELSE Node(path, "S_IFDIR", 511, <<>>)

KnownWhich == {"regular", "executable", "symlink", "directory"}

\* why unpackDir refuses a file, or "" if it does not
Refusal(file, frame, d) ==
  IF ~NameValid(file.name) THEN "InvalidName"
  ELSE IF ~NotSeen(frame.seen, file.name) THEN "DuplicateName"
  ELSE IF PathExists(d, PathJoin(frame.dir, file.name)) THEN "AlreadyExists"
  ELSE IF file.which \notin KnownWhich THEN "UnknownFileType"
  ELSE ""

\* one iteration of unpackDir's loop, or its return
UnpackDirStep ==
  /\ unpack.pc = "unpackDir"
  /\ LET top   == ustack[Len(ustack)]
         rest  == SubSeq(ustack, 1, Len(ustack) - 1)
     IN  IF top.i > Len(top.files)
         THEN /\ ustack' = rest
              /\ unpack' = IF rest = <<>> THEN [unpack EXCEPT !.pc = "print"]
                           ELSE unpack
              /\ disk' = disk
         ELSE LET file == top.files[top.i]
                  path == PathJoin(top.dir, file.name)
                  why  == Refusal(file, top, disk)
                  next == [top EXCEPT !.i = @ + 1,
                                      !.seen = @ \cup {file.name}]
              IN  IF why # ""
                  THEN /\ unpack' = Throw(unpack, why)
                       /\ UNCHANGED <<ustack, disk>>
                  ELSE /\ unpack' = unpack
                       /\ disk' = Append(disk, Created(file, path))
                       /\ ustack' = IF file.which = "directory"
                                    THEN Append(Append(rest, next),
                                                Frame(file.files, path))
                                    ELSE Append(rest, next)
  /\ UNCHANGED <<cd, srcTree, pack, spk, tampered, child, pipe, pipeOpen, rootBy>>

\* printAppId(publicKey, spkfile)
UnpackPrint ==
  /\ unpack.pc = "print"
  /\ unpack' = [unpack EXCEPT !.pc = "done", !.outcome = "Success",
                  !.via = "returned",
                  !.stdout = AppIdLine(unpack.publicKey, SpkName)]
  /\ UNCHANGED <<cd, srcTree, pack, spk, tampered, child, pipe, pipeOpen,
                 ustack, disk, rootBy>>

\* another process creates the destination before unpack does
EnvCreateRoot ==
  /\ pack.pc = "done" /\ pack.outcome \in {"Success", "NotRun"}
  /\ unpack.pc # "done"
  /\ rootBy = "none"
  /\ rootBy' = "env"
  /\ UNCHANGED <<cd, srcTree, pack, spk, tampered, child, pipe, pipeOpen,
                 unpack, ustack, disk>>


(***************************************************************************)
(* The inputs: directory trees to pack, alterations of a package, and      *)
(* packages made by somebody else.                                         *)
(***************************************************************************)
MaxWidth == 2

NameA == <<97>>
NameB == <<98>>

File(name, type, mode, data) ==
  [name |-> name, type |-> type, mode |-> mode, data |-> data, children |-> <<>>]

Dir(name, children) ==
  [name |-> name, type |-> "S_IFDIR", mode |-> 493, data |-> <<>>,
   children |-> children]

\* lists of at most n members of E, no name twice
RECURSIVE DirsUpTo(_, _)
DirsUpTo(E, n) ==
  IF n = 0 THEN {<<>>}
  ELSE LET shorter == DirsUpTo(E, n - 1)
       IN  shorter \cup
           UNION {{Append(l, e) :
                     e \in {x \in E : \A i \in 1..Len(l) : l[i].name # x.name}}
                  : l \in shorter}

\* 0644 "x", 0755 "y", 0654 and empty, a symlink to "t", a fifo
SrcLeaves(name) ==
  {File(name, "S_IFREG", 420, <<120>>), File(name, "S_IFREG", 493, <<121>>),
   File(name, "S_IFREG", 428, <<>>), File(name, "S_IFLNK", 511, <<116>>),
   File(name, "S_IFIFO", 420, <<>>)}

InnerLeaves ==
  {File(NameA, "S_IFREG", 420, <<120>>), File(NameB, "S_IFIFO", 420, <<>>)}

SrcEntries ==
  SrcLeaves(NameA) \cup SrcLeaves(NameB)
  \cup {Dir(NameB, c) : c \in DirsUpTo(InnerLeaves, MaxWidth)}

SrcTrees == DirsUpTo(SrcEntries, MaxWidth)

NoFile == [exists |-> FALSE, header |-> <<>>, region |-> NoRegion]

\* a Signature message by key k over the stream p, carrying k's public key
SignedBy(k, p) ==
  [publicKey |-> PublicKeyOf(k), signature |-> crypto_sign(crypto_hash(p), k)]

AFile(name, which, data, files) ==
  [name |-> name, which |-> which, data |-> data, files |-> files]

\* what someone without the packer's private key can put in place of the
\* bytes that are neither a Signature message nor an archive
Garbage == [garbage |-> TRUE]

\* compressed region: the stream re-encoded, cut short or damaged (xz then
\* exits non-zero), another payload, the signatures they can make, and the
\* stream behind bytes that are no message
Alterations(region, signature, tmpData) ==
  LET payloads == {tmpData,
                   <<[files |-> <<AFile(NameA, "regular", <<122>>, <<>>)>>
                                \o tmpData[1].files]>>}
      sigs(p)  == {signature,
                   [signature EXCEPT !.publicKey = <<>>],
                   [signature EXCEPT !.signature.len = crypto_sign_BYTES],
                   [SignedBy(OtherKey, p) EXCEPT
                      !.publicKey = PublicKeyOf(PackerKey)],
                   SignedBy(OtherKey, p)}
      bodies   == UNION {{<<sg>> \o p : sg \in sigs(p)} : p \in payloads}
      cut      == {<<>>, <<signature>>, region.body}
      garbled  == <<Garbage>> \o region.body
  IN  ({[body |-> b, complete |-> TRUE, enc |-> 0] : b \in bodies \cup {garbled}}
       \cup {[body |-> b, complete |-> FALSE, enc |-> 0] : b \in cut}
       \cup {[region EXCEPT !.enc = 1]})
      \ {region}

\* the compressed region of a properly signed package is altered between
\* pack and unpack
Tamper ==
  /\ pack.pc = "done" /\ pack.outcome = "Success" /\ pack.signResult = 0
  /\ unpack.pc = "idle" /\ ~tampered
  /\ \E r \in Alterations(spk.region, pack.signature, pack.tmpData) :
        spk' = [spk EXCEPT !.region = r]
  /\ tampered' = TRUE
  /\ UNCHANGED <<cd, srcTree, pack, child, pipe, pipeOpen, unpack, ustack,
                 disk, rootBy>>

\* the empty name, ".", "..", "../e" and "a\0"
InvalidNames == {<<>>, Dot, DotDot, <<46, 46, 47, 101>>, <<97, 0>>}

CraftedInner ==
  LET a == AFile(NameA, "regular", <<120>>, <<>>)
  IN  {<<>>, <<a>>, <<a, a>>, <<AFile(DotDot, "regular", <<120>>, <<>>)>>}

CraftedFiles ==
  {AFile(n, "regular", <<120>>, <<>>) : n \in {NameA, NameB} \cup InvalidNames}
  \cup {AFile(NameA, "symlink", <<116>>, <<>>),
        AFile(DotDot, "directory", <<>>,
              <<AFile(NameA, "regular", <<120>>, <<>>)>>),
        AFile(NameB, "directory", <<>>,
              <<AFile(NameA, "regular", <<120>>, <<>>)>>)}
  \cup {AFile(NameA, "directory", <<>>, c) : c \in CraftedInner}

BadHeaders ==
  {<<>>, SubSeq(MAGIC_NUMBER, 1, 3),
   [MAGIC_NUMBER EXCEPT ![1] = 0], [MAGIC_NUMBER EXCEPT ![8] = 0]}

CraftedRegion(files) ==
  LET p == <<[files |-> files]>>
  IN  [body |-> <<SignedBy(OtherKey, p)>> \o p, complete |-> TRUE, enc |-> 0]

CraftedPackages ==
  {[exists |-> TRUE, header |-> MAGIC_NUMBER, region |-> CraftedRegion(fs)]
     : fs \in SeqsUpTo(CraftedFiles, MaxWidth)}
  \cup {[exists |-> TRUE, header |-> h, region |-> CraftedRegion(<<>>)]
          : h \in BadHeaders}

vars == <<cd, srcTree, pack, spk, tampered, child, pipe, pipeOpen, unpack,
          ustack, disk, rootBy>>

PipelineIdle ==
  /\ srcTree = <<>>
  /\ pack = PackIdle
  /\ spk = NoFile
  /\ tampered = FALSE
  /\ child = NoChild
  /\ pipe = <<>>
  /\ pipeOpen = FALSE
  /\ unpack = UnpackIdle
  /\ ustack = <<>>
  /\ disk = <<>>
  /\ rootBy = "none"

InitCodec == CodecInit /\ PipelineIdle

NextCodec == Encode \/ DecodeEncoded \/ DecodeText

\* pack a directory, possibly alter the package, unpack it
InitPacked ==
  /\ cd = CodecIdle
  /\ srcTree \in SrcTrees
  /\ pack = [PackIdle EXCEPT !.pc = "archive"]
  /\ spk = NoFile
  /\ tampered = FALSE
  /\ child = NoChild
  /\ pipe = <<>>
  /\ pipeOpen = FALSE
  /\ unpack = UnpackIdle
  /\ ustack = <<>>
  /\ disk = <<>>
  /\ rootBy = "none"

\* unpack a package somebody else made
InitCrafted ==
  /\ cd = CodecIdle
  /\ srcTree = <<>>
  /\ pack = [PackIdle EXCEPT !.pc = "done", !.outcome = "NotRun"]
  /\ spk \in CraftedPackages
  /\ tampered = FALSE
  /\ child = NoChild
  /\ pipe = <<>>
  /\ pipeOpen = FALSE
  /\ unpack = UnpackIdle
  /\ ustack = <<>>
  /\ disk = <<>>
  /\ rootBy = "none"

Init == InitPacked \/ InitCrafted

Next ==
  \/ PackArchive \/ PackSign \/ PackOpenFinal \/ PackSpawn \/ PackWrite
  \/ PackClosePipe \/ PackWait \/ PackPrint
  \/ ChildCompress \/ ChildCompressEnd \/ ChildDecompress
  \/ ChildDecompressEnd \/ ChildCrash
  \/ Tamper
  \/ UnpackStart \/ UnpackReadMagic \/ UnpackSpawn \/ UnpackReadSig
  \/ UnpackVerify \/ UnpackDrain \/ UnpackClosePipe \/ UnpackWait
  \/ UnpackHash \/ UnpackMkdir \/ UnpackDirStep \/ UnpackPrint
  \/ EnvCreateRoot

Spec == Init /\ [][Next]_vars

SpecCodec == InitCodec /\ [][NextCodec]_vars

\* the steps of the tool, which runs until it blocks or ends
ParentStep ==
  \/ PackArchive \/ PackSign \/ PackOpenFinal \/ PackSpawn \/ PackWrite
  \/ PackClosePipe \/ PackWait \/ PackPrint
  \/ UnpackReadMagic \/ UnpackSpawn \/ UnpackReadSig
  \/ UnpackVerify \/ UnpackDrain \/ UnpackClosePipe \/ UnpackWait
  \/ UnpackHash \/ UnpackMkdir \/ UnpackDirStep \/ UnpackPrint

\* the steps of xz, which keeps consuming or producing while it can and
\* exits at the end of its input or on a broken pipe
ChildStep ==
  \/ ChildCompress \/ ChildCompressEnd \/ ChildDecompress
  \/ ChildDecompressEnd

\* the runs whose ending is checked: pack and unpack of the empty directory,
\* of one file and of a directory holding one, and unpack of two packages
\* made by somebody else
PipedTrees ==
  {<<>>, <<File(NameA, "S_IFREG", 420, <<120>>)>>,
   <<Dir(NameB, <<File(NameA, "S_IFREG", 420, <<120>>)>>)>>}

PipedPackages ==
  {[exists |-> TRUE, header |-> MAGIC_NUMBER,
    region |-> CraftedRegion(<<AFile(NameA, "regular", <<120>>, <<>>)>>)],
   [exists |-> TRUE, header |-> MAGIC_NUMBER,
    region |-> CraftedRegion(<<AFile(DotDot, "regular", <<120>>, <<>>)>>)]}

InitPiped ==
  \/ InitPacked /\ srcTree \in PipedTrees
  \/ InitCrafted /\ spk \in PipedPackages

\* both processes are scheduled while they can run
SpecFair ==
  InitPiped /\ [][Next]_vars /\ WF_vars(ParentStep) /\ WF_vars(ChildStep)


(***************************************************************************)
(* Views of the two trees, for comparing them: every entry by its name,    *)
(* its kind, its contents or target, and its children, in order.           *)
(***************************************************************************)
RECURSIVE SrcView(_)
SrcView(entries) ==
  [i \in 1..Len(entries) |->
     LET e == entries[i]
     IN  [name |-> e.name,
          kind |-> IF e.type = "S_IFDIR" THEN "directory"
                   ELSE IF e.type = "S_IFLNK" THEN "symlink"
                   ELSE IF e.type = "S_IFREG" /\ (e.mode \div 64) % 2 = 1
                        THEN "executable"
                   ELSE IF e.type = "S_IFREG" THEN "regular"
                   ELSE "other",
          data |-> e.data,
          children |-> SrcView(e.children)]]

\* path is dir, a slash, and one more component
IsChildPath(dir, path) ==
  /\ Len(path) > Len(dir) + 1
  /\ SubSeq(path, 1, Len(dir) + 1) = dir \o <<47>>
  /\ \A i \in (Len(dir) + 2)..Len(path) : path[i] # 47

RECURSIVE DiskView(_, _)
DiskView(d, dir) ==
  LET kids == SelectSeq(d, LAMBDA n : IsChildPath(dir, n.path))
  IN  [i \in 1..Len(kids) |->
         LET n == kids[i]
         IN  [name |-> SubSeq(n.path, Len(dir) + 2, Len(n.path)),
              kind |-> IF n.type = "S_IFDIR" THEN "directory"
                       ELSE IF n.type = "S_IFLNK" THEN "symlink"
                       ELSE IF (n.mode \div 64) % 2 = 1 THEN "executable"
                       ELSE "regular",
              data |-> n.data,
              children |-> DiskView(d, n.path)]]

RECURSIVE OnlyPackable(_)
\* the tree holds regular files, symlinks and directories only
OnlyPackable(entries) ==
  \A i \in 1..Len(entries) :
    /\ entries[i].type \in {"S_IFREG", "S_IFLNK", "S_IFDIR"}
    /\ OnlyPackable(entries[i].children)

\* C1: for a tree of regular files, executables, symlinks and directories,
\* with crypto_sign() returning 0, xz exiting 0 and nobody else creating
\* the destination, pack succeeds
\* and unpack of the package succeeds and leaves under the destination the
\* same entries in the same order, with the same kinds, contents and targets.
C1_RoundTrip ==
  /\ (/\ pack.pc = "done" /\ pack.outcome # "NotRun"
      /\ child.dir = "OUTPUT" /\ child.status = ExitOk)
     => pack.outcome = "Success"
  /\ (/\ unpack.pc = "done" /\ pack.outcome = "Success" /\ ~tampered
      /\ pack.signResult = 0
      /\ OnlyPackable(srcTree)
      /\ rootBy # "env" /\ child.status = ExitOk)
     => /\ unpack.outcome = "Success"
        /\ DiskView(disk, DestDirname) = SrcView(srcTree)

C1_Witness ==
  /\ unpack.outcome = "Success" /\ pack.outcome = "Success" /\ ~tampered
  /\ pack.signResult = 0
  /\ OnlyPackable(srcTree)
  /\ Len(srcTree) = 2
  /\ srcTree[1].type = "S_IFDIR" /\ srcTree[1].children # <<>>
  /\ srcTree[2].type = "S_IFREG" /\ srcTree[2].mode = 493

\* the stream pack wrote into the compressed region
PackedBody == PackStream(pack.signature, pack.tmpData)

\* the compressed region no longer decompresses, whole, to what was packed
StreamChanged == spk.region.body # PackedBody \/ ~spk.region.complete

CryptoOutcomes == {"InvalidSignature", "ContentMismatch"}

\* C2 as stated: an altered package always fails, with InvalidSignature or
\* ContentMismatch.
C2_Original ==
  (unpack.pc = "done" /\ tampered /\ rootBy # "env")
  => unpack.outcome \in CryptoOutcomes

\* C2 amended: an altered package is unpacked with success only if the
\* region still decompresses whole and either to the stream that was packed
\* or to one carrying another key; an alteration that changes the stream or
\* breaks the container and keeps the packer's key fails, at the read of
\* the signature record, its size checks, its verification, the exit status
\* of xz or the hash comparison.
C2_TamperDetected ==
  (unpack.pc = "done" /\ tampered /\ rootBy # "env")
  => /\ unpack.outcome = "Success"
        => /\ spk.region.complete
           /\ \/ spk.region.body = PackedBody
              \/ unpack.publicKey # PublicKeyOf(PackerKey)
     /\ (/\ StreamChanged
         /\ \/ spk.region.body = <<>>
            \/ "publicKey" \notin DOMAIN spk.region.body[1]
            \/ spk.region.body[1].publicKey # PublicKeyOf(OtherKey))
        => unpack.outcome \in CryptoOutcomes \cup
             {"ReadFailed", "MalformedSignature", "ChildFailed"}

C2_Witness ==
  /\ unpack.pc = "done" /\ tampered /\ rootBy # "env"
  /\ unpack.outcome = "ContentMismatch"
  /\ unpack.publicKey = PublicKeyOf(PackerKey)

\* the file unpackDir is looking at
AtFile ==
  /\ unpack.pc = "unpackDir" /\ ustack # <<>>
  /\ ustack[Len(ustack)].i <= Len(ustack[Len(ustack)].files)

TopFrame == ustack[Len(ustack)]

CurrentFile == TopFrame.files[TopFrame.i]

\* a name as the archive invariant wants it
GoodName(name) ==
  /\ name # <<>> /\ name # <<46>> /\ name # <<46, 46>>
  /\ \A i \in 1..Len(name) : name[i] # 47 /\ name[i] # 0

RECURSIVE Components(_)
\* a path split at its slashes
Components(path) ==
  IF \A i \in 1..Len(path) : path[i] # 47 THEN <<path>>
  ELSE LET k == CHOOSE i \in 1..Len(path) :
                  path[i] = 47 /\ \A j \in 1..(i - 1) : path[j] # 47
       IN  <<SubSeq(path, 1, k - 1)>> \o Components(SubSeq(path, k + 1, Len(path)))

\* the destination followed by good names
UnderDestination(path) ==
  LET c == Components(path)
  IN  /\ Len(c) >= 2 /\ c[1] = DestDirname
      /\ \A i \in 2..Len(c) : GoodName(c[i])

RECURSIVE FirstRefusal(_)
\* going through the files as unpackDir does, the first one it cannot
\* accept: "InvalidName", "DuplicateName", or "" if there is none
FirstRefusal(files) ==
  LET RECURSIVE From(_)
      From(i) ==
        IF i > Len(files) THEN ""
        ELSE IF ~GoodName(files[i].name) THEN "InvalidName"
        ELSE IF \E j \in 1..(i - 1) : files[j].name = files[i].name
             THEN "DuplicateName"
        ELSE IF files[i].which = "directory" /\ FirstRefusal(files[i].files) # ""
             THEN FirstRefusal(files[i].files)
        ELSE From(i + 1)
  IN  From(1)

RECURSIVE HasSiblingDuplicate(_)
\* two files of one directory level carry the same name
HasSiblingDuplicate(files) ==
  \/ \E i, j \in 1..Len(files) : i # j /\ files[i].name = files[j].name
  \/ \E i \in 1..Len(files) : HasSiblingDuplicate(files[i].files)

\* unpack got as far as creating the destination
Materializing == unpack.pc = "done" /\ rootBy = "unpack"

\* C4 as stated: unpack fails with DuplicateName exactly when two files of
\* one level carry the same name.
C4_Original ==
  Materializing
  => (unpack.outcome = "DuplicateName"
      <=> HasSiblingDuplicate(ArchiveFiles(unpack.tmp)))

\* C4 amended: unpack fails with DuplicateName exactly when the first file
\* unpackDir refuses, in its traversal order, carries the name of an
\* earlier file of the same level (whatever their kinds); the failure is
\* raised at that second file and nothing is written for it; the same name
\* at other levels or in sibling directories never causes it.
C4_DuplicateRefused ==
  /\ [](Materializing
        => (unpack.outcome = "DuplicateName"
            <=> FirstRefusal(ArchiveFiles(unpack.tmp)) = "DuplicateName"))
  /\ [][(unpack.outcome = "" /\ unpack'.outcome = "DuplicateName")
        => /\ AtFile /\ disk' = disk
           /\ \E j \in 1..(TopFrame.i - 1) :
                 TopFrame.files[j].name = CurrentFile.name]_vars

C4_Witness ==
  /\ unpack.outcome = "DuplicateName"
  /\ Len(ustack) = 2 /\ Len(disk) = 2

\* C5: with the destination created by anybody else, before unpack starts
\* or at any moment before its mkdir, unpack writes nothing and fails.
C5_NoOverwrite ==
  rootBy = "env"
  => /\ disk = <<>> /\ ustack = <<>>
     /\ unpack.pc \notin {"unpackDir", "print"}
     /\ unpack.outcome # "Success"
     /\ unpack.pc = "done" => unpack.outcome # ""

C5_Witness ==
  rootBy = "env" /\ unpack.outcome = "MkdirFailed"

\* the file starts with the magic number
StartsWithMagic(header) ==
  Len(header) >= 8 /\ SubSeq(header, 1, 8) = MAGIC_NUMBER

\* C6 as stated: a file that does not start with the magic number, or is
\* shorter than it, ends unpack with BadMagic and no subprocess.
C6_Original ==
  (unpack.pc = "done" /\ unpack.outcome # "OutputExists"
   /\ ~StartsWithMagic(spk.header))
  => (unpack.outcome = "BadMagic" /\ ~unpack.spawned)

\* C6 amended: the subprocess is spawned only after the magic number read
\* from the file compared equal; a file whose first bytes differ ends
\* unpack with BadMagic, a file shorter than the magic number ends it with
\* a failed read (premature end of file), and in both cases no subprocess
\* is created.
C6_MagicGate ==
  /\ unpack.spawned => StartsWithMagic(spk.header)
  /\ (unpack.pc = "done" /\ unpack.outcome # "OutputExists"
      /\ ~StartsWithMagic(spk.header))
     => /\ ~unpack.spawned
        /\ unpack.outcome = IF Len(spk.header) < 8 THEN "PrematureEOF"
                            ELSE "BadMagic"

C6_Witness ==
  /\ unpack.outcome = "PrematureEOF"
  /\ Len(spk.header) = 3 /\ ~unpack.spawned

\* C7: base32Encode succeeds on every byte sequence, and decoding its
\* output succeeds and gives the byte sequence back; the byte 0xFF encodes
\* to "zw" and "zw" decodes to [0xFF].
C7_CodecRoundTrip ==
  /\ (cd.mode = "bytes" /\ cd.phase \in {"encoded", "decoded"})
     => /\ cd.enc.ok
        /\ Len(cd.enc.val) = (8 * Len(cd.input) + 4) \div 5
        /\ \A i \in 1..Len(cd.enc.val) : cd.enc.val[i] \in 0..255
  /\ (cd.mode = "bytes" /\ cd.phase = "decoded")
     => (cd.dec.ok /\ cd.dec.val = cd.input)
  /\ (cd.mode = "bytes" /\ cd.phase = "encoded" /\ cd.input = <<255>>)
     => cd.enc.val = <<122, 119>>
  /\ (cd.mode = "text" /\ cd.phase = "decoded" /\ cd.text = <<122, 119>>)
     => (cd.dec.ok /\ cd.dec.val = <<255>>)

C7_Witness ==
  /\ cd.mode = "bytes" /\ cd.phase = "decoded"
  /\ Len(cd.input) = 5 /\ cd.input[1] = 255 /\ cd.input[5] = 165

\* "0123456789acdefghjkmnpqrstuvwxyz", its upper-case letters, and o, i, l,
\* b in either case: the digits and all the letters
AlphabetChars == (48..57) \cup (97..122) \cup (65..90)

\* the 5-bit value of a character of the alphabet
SymbolValue(c) ==
  LET lc == IF c \in 65..90 THEN c + 32 ELSE c
  IN  IF lc = 111 THEN 0
      ELSE IF lc = 105 \/ lc = 108 THEN 1
      ELSE IF lc = 98 THEN 8
      ELSE IF lc <= 57 THEN lc - 48
      ELSE 10 + Cardinality({x \in 97..(lc - 1) : x \notin {98, 105, 108, 111}})

RECURSIVE BitsValue(_, _)
\* the bits of a text as a number, modulo 2^25
BitsValue(text, n) ==
  IF n = 0 THEN 0
  ELSE (BitsValue(text, n - 1) * 32 + SymbolValue(text[n])) % 33554432

\* the bits left over after the whole bytes
Leftover(text) == BitsValue(text, Len(text)) % (2 ^ ((5 * Len(text)) % 8))

\* C8: decode fails with InvalidEncoding on a text holding a character
\* outside the alphabet, with TrailingBits on a text of the alphabet whose
\* leftover bits are not zero, and otherwise succeeds with floor(5*len/8)
\* bytes.
C8_DecodeRejects ==
  (cd.mode = "text" /\ cd.phase = "decoded")
  => IF \E i \in 1..Len(cd.text) : cd.text[i] \notin AlphabetChars
     THEN ~cd.dec.ok /\ cd.dec.err = "InvalidEncoding"
     ELSE IF Leftover(cd.text) # 0
     THEN ~cd.dec.ok /\ cd.dec.err = "TrailingBits"
     ELSE /\ cd.dec.ok
          /\ Len(cd.dec.val) = (5 * Len(cd.text)) \div 8
          /\ \A i \in 1..Len(cd.dec.val) :
               cd.dec.val[i] =
                 (BitsValue(cd.text, Len(cd.text))
                    \div (2 ^ (5 * Len(cd.text) - 8 * i))) % 256

C8_Witness ==
  /\ cd.mode = "text" /\ cd.phase = "decoded"
  /\ cd.dec.err = "TrailingBits" /\ Len(cd.text) = 3

RECURSIVE Mirrors(_, _)
\* the archive level holds one file for each regular file, symlink and
\* directory of the directory, and none for any other entry
Mirrors(entries, files) ==
  LET kept == SelectSeq(entries,
                LAMBDA e : e.type \in {"S_IFREG", "S_IFLNK", "S_IFDIR"})
  IN  /\ Len(files) = Len(kept)
      /\ \A i \in 1..Len(kept) :
           /\ files[i].name = kept[i].name
           /\ Mirrors(kept[i].children, files[i].files)

\* C9: a device, socket or fifo is warned about, does not stop pack, and
\* has no file in the archive.
C9_IrregularSkipped ==
  pack.pc \in {"hash", "open", "spawn", "write", "close", "wait", "print", "done"}
  /\ pack.outcome # "NotRun"
  => Mirrors(srcTree, pack.archive)

\* C10: the exit status of xz is collected only after the tool closed its
\* end of the pipe, and when xz exits non-zero or is killed the operation
\* fails: no app ID line, and in unpack no hash comparison, no destination.
C10_ChildFailureFatal ==
  /\ child.state = "reaped" => ~pipeOpen
  /\ (child.dir = "OUTPUT" /\ child.state \in {"exited", "reaped"}
      /\ child.status # ExitOk)
     => (pack.outcome # "Success" /\ pack.stdout = <<>>
         /\ pack.pc \notin {"print"})
  /\ (child.dir = "INPUT" /\ child.state \in {"exited", "reaped"}
      /\ child.status # ExitOk)
     => /\ unpack.outcome \notin {"Success", "ContentMismatch"}
        /\ unpack.stdout = <<>>
        /\ unpack.pc \notin {"hash", "mkdir", "unpackDir", "print"}
        /\ rootBy # "unpack" /\ disk = <<>>

C10_Witness ==
  /\ unpack.outcome = "ChildFailed" /\ child.state = "reaped"
  /\ child.status = Killed /\ Len(unpack.tmp) = 1

\* C11: when crypto_sign() reports an error pack aborts, and the final file
\* is neither created nor written.
C11_SignFailureFatal ==
  (pack.pc \notin {"idle", "archive", "hash"} /\ pack.signResult # 0)
  => /\ pack.pc = "done" /\ pack.outcome \notin {"", "Success"}
     /\ ~spk.exists /\ pack.stdout = <<>>

\* the failures the specification calls format/validation errors
NamedValidationFailures ==
  {"BadMagic", "MalformedSignature", "InvalidName", "DuplicateName",
   "OutputExists"}

\* C12 as stated: bad magic, a malformed signature, an invalid or duplicate
\* name and an existing destination all end unpack through
\* validationError(), with the report "*** <filename>: <message>".
C12_Original ==
  (unpack.pc = "done" /\ unpack.outcome \in NamedValidationFailures)
  => /\ unpack.via = "exitError"
     /\ unpack.report = Report(SpkName, unpack.outcome)

\* C12 amended: bad magic, a malformed or invalid signature and a content
\* mismatch end unpack through validationError() with the report
\* "*** <filename>: <message>"; an existing destination ends it with the
\* message doUnpack returns, without that prefix; an invalid or duplicate
\* name, like a destination that appears before mkdir, ends it with an
\* exception; none of them prints the app ID.
C12_ValidationPaths ==
  unpack.pc = "done"
  => /\ unpack.outcome \in {"BadMagic", "MalformedSignature",
                            "InvalidSignature", "ContentMismatch"}
        => /\ unpack.via = "exitError"
           /\ unpack.report = Report(SpkName, unpack.outcome)
     /\ unpack.outcome = "OutputExists"
        => (unpack.via = "returned" /\ unpack.report = <<"OutputExists">>)
     /\ unpack.outcome \in {"InvalidName", "DuplicateName", "MkdirFailed"}
        => (unpack.via = "exception" /\ unpack.report = <<>>)
     /\ unpack.outcome # "Success" => unpack.stdout = <<>>
     /\ unpack.via = "exitError"
        => unpack.outcome \in {"BadMagic", "MalformedSignature",
                               "InvalidSignature", "ContentMismatch"}

C12_Witness ==
  /\ unpack.pc = "done" /\ unpack.outcome = "InvalidName"
  /\ unpack.via = "exception" /\ Len(ustack) = 1 /\ disk # <<>>

\* the four checks, as the state at hand shows them passed
ChecksPassed ==
  /\ StartsWithMagic(spk.header) /\ unpack.spawned
  /\ Len(unpack.publicKey) = crypto_sign_PUBLICKEYBYTES
  /\ unpack.sigBytes.len = crypto_hash_BYTES + crypto_sign_BYTES
  /\ unpack.sigBytes.signer # 0
  /\ PublicKeyOf(unpack.sigBytes.signer) = unpack.publicKey
  /\ unpack.expectedHash = unpack.sigBytes.msg
  /\ unpack.expectedHash.len = crypto_hash_BYTES
  /\ unpack.expectedHash.digest = unpack.tmp

EarlyFailures ==
  {"BadMagic", "MalformedSignature", "InvalidSignature", "ContentMismatch"}

\* a step of unpack comes only after the step before it
InOrder ==
  /\ (unpack'.pc = "spawn" /\ unpack.pc # "spawn") => unpack.pc = "magic"
  /\ (unpack'.pc = "readSig" /\ unpack.pc # "readSig") => unpack.pc = "spawn"
  /\ (unpack'.pc = "verify" /\ unpack.pc # "verify") => unpack.pc = "readSig"
  /\ (unpack'.pc = "drain" /\ unpack.pc # "drain") => unpack.pc = "verify"
  /\ (unpack'.pc = "hash" /\ unpack.pc # "hash")
     => (unpack.pc = "wait" /\ unpack.tmp' = unpack.tmp)
  /\ (unpack'.pc = "mkdir" /\ unpack.pc # "mkdir") => unpack.pc = "hash"
  /\ (rootBy' = "unpack" /\ rootBy # "unpack")
     => (unpack.pc = "mkdir" /\ unpack'.pc = "unpackDir")
  /\ disk' # disk => (unpack.pc = "unpackDir" /\ rootBy = "unpack")
  /\ unpack.pc = "done" => (unpack' = unpack /\ disk' = disk /\ rootBy' = rootBy)

\* C13: unpack creates the destination and what is under it only after the
\* magic check, the parse of the signature, its verification and the hash
\* comparison succeeded, in that order; ended by BadMagic,
\* MalformedSignature, InvalidSignature or ContentMismatch it has run no
\* later step and created nothing.
C13_ChecksBeforeCreate ==
  /\ []((\/ rootBy = "unpack" \/ disk # <<>>
         \/ unpack.pc \in {"mkdir", "unpackDir", "print"}
         \/ unpack.outcome = "Success") => ChecksPassed)
  /\ []((unpack.pc = "done" /\ unpack.outcome \in EarlyFailures)
        => /\ rootBy # "unpack" /\ disk = <<>> /\ ustack = <<>>
           /\ unpack.stdout = <<>>
           /\ unpack.outcome = "BadMagic"
              => (~unpack.spawned /\ unpack.publicKey = <<>>)
           /\ unpack.outcome \in {"MalformedSignature", "InvalidSignature"}
              => (unpack.tmp = <<>> /\ child.state # "reaped"))
  /\ [][InOrder]_vars

C13_Witness ==
  /\ unpack.pc = "done" /\ unpack.outcome = "ContentMismatch"
  /\ child.state = "reaped" /\ Len(unpack.tmp) = 1 /\ rootBy = "none"

\* the parent is in waitpid()
ParentWaiting == pack.pc = "wait" \/ unpack.pc = "wait"

\* xz is blocked reading an empty pipe or writing a full one that the
\* parent still holds open
ChildBlockedOnPipe ==
  /\ child.state = "running" /\ pipeOpen
  /\ \/ child.dir = "OUTPUT" /\ pipe = <<>>
     \/ /\ child.dir = "INPUT" /\ child.pos < Len(spk.region.body)
        /\ Len(pipe) >= PipeCap

\* C14: with xz consuming or producing while it can, every pack and unpack
\* run ends; the parent waits for xz only with its end of the pipe closed,
\* after writing the whole stream or reading to its end unless it stopped
\* early, so it never waits while xz is blocked on the pipe.
C14_NoPipeDeadlock ==
  /\ [](pack.pc = "wait" => (~pipeOpen /\ pack.toSend = <<>>))
  /\ [](unpack.pc = "wait"
        => /\ ~pipeOpen
           /\ unpack.outcome = ""
              => (pipe = <<>> /\ child.state # "running"))
  /\ [](~(ParentWaiting /\ ChildBlockedOnPipe))
  /\ (pack.pc \notin {"idle", "done"} ~> pack.pc = "done")
  /\ (unpack.pc \notin {"idle", "done"} ~> unpack.pc = "done")

C14_Witness ==
  /\ unpack.pc = "wait" /\ unpack.outcome = "ReadFailed"
  /\ child.state = "running" /\ child.pos < Len(spk.region.body)
  /\ pipe # <<>>

=============================================================================
